---- MODULE Spec2Model ----
(***************************************************************************)
(* Model of src/main.py: the two e-mail senders (SendGrid REST and SMTP),  *)
(* the dispatcher send_notification, and the two handlers that use it      *)
(* (POST /api/contact, POST /api/email/test).                              *)
(*                                                                         *)
(* The process environment is read-only configuration chosen in Init.      *)
(* Every handler is one action; what the outside world does during the     *)
(* handler (the HTTP response of SendGrid, the stage at which the SMTP     *)
(* session fails, whether the document store raises) is an input of the    *)
(* action.  The record `last` holds what the most recent call did: its     *)
(* inputs, its outcome and the calls it made.                              *)
(*                                                                         *)
(* Of a message only the lead's `source` field is modelled; recipient,     *)
(* subject and body text do not influence any branch of the code.          *)
(***************************************************************************)
EXTENDS Integers, Sequences, FiniteSets, TLC

VARIABLES env, db, last

vars == <<env, db, last>>

(* ---------------------------------------------------------------------- *)
(* Bounds                                                                  *)
(* ---------------------------------------------------------------------- *)

\* Number of leads the document store accepts before the model stops
\* submitting new ones.
MaxLeads == 2

(* ---------------------------------------------------------------------- *)
(* Python values                                                           *)
(* ---------------------------------------------------------------------- *)

\* Optional values: None, or a value.  Plain strings are TLA+ strings; the
\* strings the code parses (SMTP_PORT, SMTP_STARTTLS) are sequences of
\* one-character strings.
None == [some |-> FALSE, val |-> ""]

\* None for the settings held as character sequences.
NoneSeq == [some |-> FALSE, val |-> <<>>]

Some(v) == [some |-> TRUE, val |-> v]

\* A truthiness test written as `is not None`: it takes "" for a value.
Truthy_IsNotNone(o) == o.some

\* Python truthiness of an optional string: None and "" are falsy.
Truthy(o) == o.some /\ o.val # ""

\* `a or b` on optional strings.
Or(a, b) == IF Truthy(a) THEN a ELSE b

Digits == {"0", "1", "2", "3", "4", "5", "6", "7", "8", "9"}

\* int(s) succeeds on a non-empty run of decimal digits and raises
\* ValueError on the empty string and on any other text of the model.
IsIntLiteral(s) == Len(s) > 0 /\ \A i \in 1..Len(s) : s[i] \in Digits

LowerChar(c) ==
    CASE c = "T" -> "t" [] c = "R" -> "r" [] c = "U" -> "u" [] c = "E" -> "e"
      [] c = "N" -> "n" [] c = "O" -> "o"
      [] OTHER -> c

\* str.lower()
Lower(s) == [i \in 1..Len(s) |-> LowerChar(s[i])]

(* ---------------------------------------------------------------------- *)
(* Environment                                                             *)
(* ---------------------------------------------------------------------- *)

\* os.getenv(name): None when the variable is unset.
Getenv(name) == env[name]

\* os.getenv(name, default)
GetenvDefault(name, default) == IF env[name].some THEN env[name].val ELSE default

ApiKeys == {None, Some(""), Some("SG.key")}

\* SMTP_HOST, SMTP_USER, SMTP_PASS: all set, or one of them unset or empty.
SmtpSettings ==
    {<<Some("smtp.example.com"), Some("mailer"), Some("secret")>>,
     <<None, Some("mailer"), Some("secret")>>,
     <<Some("smtp.example.com"), Some(""), Some("secret")>>,
     <<Some("smtp.example.com"), None, None>>}

Ports == {NoneSeq, Some(<<"2", "5">>), Some(<<"a", "b", "c">>)}

StartTlsValues == {NoneSeq, Some(<<"T", "R", "U", "E">>), Some(<<"n", "o">>)}

Environments ==
    {[SENDGRID_API_KEY |-> k, SMTP_HOST |-> s[1], SMTP_USER |-> s[2],
      SMTP_PASS |-> s[3], SMTP_PORT |-> p, SMTP_STARTTLS |-> t] :
        k \in ApiKeys, s \in SmtpSettings, p \in Ports, t \in StartTlsValues}

(* ---------------------------------------------------------------------- *)
(* Transport behaviour (inputs)                                            *)
(* ---------------------------------------------------------------------- *)

\* What requests.post does: raises, or answers with a status code.
HttpBehaviours ==
    {[exc |-> TRUE, status |-> 0]}
        \cup {[exc |-> FALSE, status |-> s] : s \in {200, 202, 500}}

\* The SMTP call that raises, if it is reached ("none": no call raises).
SmtpBehaviours == {"none", "connect", "starttls", "login", "sendmail", "quit"}

(* ---------------------------------------------------------------------- *)
(* Provider transports                                                     *)
(* ---------------------------------------------------------------------- *)

\* What a sender did: how it ended ("return" with `value`, or "raise"),
\* the HTTPS requests it posted, the SMTP connections it attempted, the
\* sessions it opened and the sessions it terminated with quit().
SenderResult(outcome, value, posts, connects, opened, quits) ==
    [outcome |-> outcome, value |-> value, posts |-> posts,
     connects |-> connects, opened |-> opened, quits |-> quits]

NotCalled == SenderResult("none", FALSE, 0, 0, 0, 0)

AcceptedStatus == {200, 202}

send_email_via_sendgrid(http) ==
    IF ~Truthy(Getenv("SENDGRID_API_KEY"))
    THEN SenderResult("return", FALSE, 0, 0, 0, 0)
    ELSE IF http.exc
    THEN SenderResult("return", FALSE, 1, 0, 0, 0)
    ELSE SenderResult("return", http.status \in AcceptedStatus, 1, 0, 0, 0)

DefaultPort == <<"5", "8", "7">>

DefaultStartTls == <<"t", "r", "u", "e">>

\* The literal SMTP_STARTTLS is compared with, after lower().
TrueText == <<"t", "r", "u", "e">>

\* The body of the try block, once the configuration has been read.  The
\* first call that raises ends the block in the except clause, which
\* returns False; calls after it, server.quit() included, are not made.
\* A quit() that itself raises still counts as the session's termination.
smtp_session(use_tls, fails) ==
    IF fails = "connect"
    THEN SenderResult("return", FALSE, 0, 1, 0, 0)
    ELSE IF use_tls /\ fails = "starttls"
    THEN SenderResult("return", FALSE, 0, 1, 1, 0)
    ELSE IF fails \in {"login", "sendmail"}
    THEN SenderResult("return", FALSE, 0, 1, 1, 0)
    ELSE IF fails = "quit"
    THEN SenderResult("return", FALSE, 0, 1, 1, 1)
    ELSE SenderResult("return", TRUE, 0, 1, 1, 1)

send_email_via_smtp(fails) ==
    LET host == Getenv("SMTP_HOST")
        portText == GetenvDefault("SMTP_PORT", DefaultPort)
        user == Getenv("SMTP_USER")
        password == Getenv("SMTP_PASS")
        use_tls == Lower(GetenvDefault("SMTP_STARTTLS", DefaultStartTls)) = TrueText
    IN  IF ~IsIntLiteral(portText)
        THEN SenderResult("raise", FALSE, 0, 0, 0, 0)
        ELSE IF ~Truthy(host) \/ ~Truthy(user) \/ ~Truthy(password)
        THEN SenderResult("return", FALSE, 0, 0, 0, 0)
        ELSE smtp_session(use_tls, fails)

(* ---------------------------------------------------------------------- *)
(* Notification dispatcher                                                 *)
(* ---------------------------------------------------------------------- *)

\* What a dispatch did: how it ended, each sender's result (NotCalled when
\* the sender was not invoked), how often each sender was invoked, and
\* whether the "No email provider configured" warning was logged.
NotifyResult(outcome, value, sg, smtp, warned) ==
    [outcome |-> outcome, value |-> value, sg |-> sg, smtp |-> smtp,
     sgCalls |-> IF sg.outcome = "none" THEN 0 ELSE 1,
     smtpCalls |-> IF smtp.outcome = "none" THEN 0 ELSE 1,
     warned |-> warned]

NoDispatch == NotifyResult("none", FALSE, NotCalled, NotCalled, FALSE)

\* The dispatcher without the early return after a successful REST send.
send_notification_NoEarlyReturn(http, fails) ==
    LET sg == IF Truthy(Getenv("SENDGRID_API_KEY"))
              THEN send_email_via_sendgrid(http)
              ELSE NotCalled
    IN  IF /\ Truthy(Getenv("SMTP_HOST"))
           /\ Truthy(Getenv("SMTP_USER"))
           /\ Truthy(Getenv("SMTP_PASS"))
        THEN LET smtp == send_email_via_smtp(fails)
             IN  NotifyResult(smtp.outcome, smtp.value, sg, smtp, FALSE)
        ELSE NotifyResult("return", sg.value, sg, NotCalled, ~sg.value)

send_notification(http, fails) ==
    LET sg == IF Truthy(Getenv("SENDGRID_API_KEY"))
              THEN send_email_via_sendgrid(http)
              ELSE NotCalled
    IN  IF sg.outcome = "return" /\ sg.value
        THEN NotifyResult("return", TRUE, sg, NotCalled, FALSE)
        ELSE IF /\ Truthy(Getenv("SMTP_HOST"))
                /\ Truthy(Getenv("SMTP_USER"))
                /\ Truthy(Getenv("SMTP_PASS"))
        THEN LET smtp == send_email_via_smtp(fails)
             IN  NotifyResult(smtp.outcome, smtp.value, sg, smtp, FALSE)
        ELSE NotifyResult("return", FALSE, sg, NotCalled, TRUE)

(* ---------------------------------------------------------------------- *)
(* Lead ingestion                                                          *)
(* ---------------------------------------------------------------------- *)

\* The `source` field of a request body: absent, null, or a string.
Absent == [present |-> FALSE, source |-> None]

Given(o) == [present |-> TRUE, source |-> o]

Payloads == {Absent, Given(None), Given(Some("ads"))}

WebsiteSource == Some("website")

\* The validated lead: an absent source takes the schema's default, a
\* source that is given, null included, is kept as given.
Contactlead(payload) ==
    [source |-> IF payload.present THEN payload.source ELSE WebsiteSource]

model_dump(lead) == lead

\* The identifier the document store returns for the next insert.
create_document(doc) == Len(db) + 1

\* What a handler did.  status: "ok" or "500" for the HTTP handlers,
\* "return" or "raise" for a direct call of a function.
HandlerResult(op, payload, status, id, value, handed, persisted, html, n, s) ==
    [op |-> op, payload |-> payload, status |-> status, id |-> id,
     value |-> value, handed |-> handed, persisted |-> persisted,
     html |-> html, n |-> n, s |-> s]

NoCall == HandlerResult("none", Absent, "none", 0, FALSE, <<>>, FALSE, None,
                        NoDispatch, NotCalled)

\* The handler with the notification sent before the insert is known to
\* have succeeded.
create_contact_lead_NotifyFirst(payload, dbFails, http, fails) ==
    LET lead_dict == model_dump(Contactlead(payload))
        inserted_id == create_document(lead_dict)
        html == Or(lead_dict.source, WebsiteSource)
        n == send_notification(http, fails)
    IN  IF dbFails \/ n.outcome = "raise"
        THEN HandlerResult("contact", payload, "500", 0, FALSE,
                           <<lead_dict>>, ~dbFails, html, n, NotCalled)
        ELSE HandlerResult("contact", payload, "ok", inserted_id, n.value,
                           <<lead_dict>>, TRUE, html, n, NotCalled)

create_contact_lead(payload, dbFails, http, fails) ==
    LET lead_dict == model_dump(Contactlead(payload))
        inserted_id == create_document(lead_dict)
        html == Or(lead_dict.source, WebsiteSource)
        n == send_notification(http, fails)
    IN  IF dbFails
        THEN HandlerResult("contact", payload, "500", 0, FALSE,
                           <<lead_dict>>, FALSE, None, NoDispatch, NotCalled)
        ELSE IF n.outcome = "raise"
        THEN HandlerResult("contact", payload, "500", 0, FALSE,
                           <<lead_dict>>, TRUE, html, n, NotCalled)
        ELSE HandlerResult("contact", payload, "ok", inserted_id, n.value,
                           <<lead_dict>>, TRUE, html, n, NotCalled)

email_test(http, fails) ==
    LET n == send_notification(http, fails)
    IN  IF n.outcome = "raise"
        THEN HandlerResult("email_test", Absent, "500", 0, FALSE, <<>>,
                           FALSE, None, n, NotCalled)
        ELSE HandlerResult("email_test", Absent, "ok", 0, n.value, <<>>,
                           FALSE, None, n, NotCalled)

(* ---------------------------------------------------------------------- *)
(* State machine                                                           *)
(* ---------------------------------------------------------------------- *)

Init ==
    /\ env \in Environments
    /\ db = <<>>
    /\ last = NoCall

\* POST /api/contact
SubmitLead ==
    \E payload \in Payloads, dbFails \in BOOLEAN,
       http \in HttpBehaviours, fails \in SmtpBehaviours :
        LET r == create_contact_lead(payload, dbFails, http, fails)
        IN  /\ Len(db) < MaxLeads
            /\ last' = r
            /\ db' = IF r.persisted THEN db \o r.handed ELSE db
            /\ UNCHANGED env

\* POST /api/email/test
EmailTest ==
    \E http \in HttpBehaviours, fails \in SmtpBehaviours :
        /\ last' = email_test(http, fails)
        /\ UNCHANGED <<env, db>>

\* A direct call of send_notification.
Dispatch ==
    \E http \in HttpBehaviours, fails \in SmtpBehaviours :
        LET n == send_notification(http, fails)
        IN  /\ last' = HandlerResult("send_notification", Absent, n.outcome, 0,
                                      n.value, <<>>, FALSE, None, n, NotCalled)
            /\ UNCHANGED <<env, db>>

\* A direct call of send_email_via_sendgrid.
CallSendgrid ==
    \E http \in HttpBehaviours :
        LET s == send_email_via_sendgrid(http)
        IN  /\ last' = HandlerResult("send_email_via_sendgrid", Absent,
                                      s.outcome, 0, s.value, <<>>, FALSE, None,
                                      NoDispatch, s)
            /\ UNCHANGED <<env, db>>

\* A direct call of send_email_via_smtp.
CallSmtp ==
    \E fails \in SmtpBehaviours :
        LET s == send_email_via_smtp(fails)
        IN  /\ last' = HandlerResult("send_email_via_smtp", Absent,
                                      s.outcome, 0, s.value, <<>>, FALSE, None,
                                      NoDispatch, s)
            /\ UNCHANGED <<env, db>>

Next == SubmitLead \/ EmailTest \/ Dispatch \/ CallSendgrid \/ CallSmtp

Spec == Init /\ [][Next]_vars

(* ---------------------------------------------------------------------- *)
(* Properties                                                              *)
(* ---------------------------------------------------------------------- *)

TypeOK ==
    /\ env \in Environments
    /\ Len(db) <= MaxLeads
    /\ last.op \in {"none", "contact", "email_test", "send_notification",
                    "send_email_via_sendgrid", "send_email_via_smtp"}

\* An environment value that is unset or empty.
Empty(o) == ~o.some \/ o.val = ""

RestConfigured == ~Empty(env["SENDGRID_API_KEY"])

SmtpConfigured ==
    /\ ~Empty(env["SMTP_HOST"])
    /\ ~Empty(env["SMTP_USER"])
    /\ ~Empty(env["SMTP_PASS"])

\* The last call ran send_notification.
Dispatched == last.n.outcome # "none"

\* Network calls of the last dispatch.
NetworkCalls == last.n.sg.posts + last.n.smtp.connects

\* C1: when both providers are configured and the REST sender returns
\* true, the SMTP sender is not called in that dispatch and the dispatch
\* returns true.
C1_RestSuccessSkipsSmtp ==
    (/\ Dispatched
     /\ RestConfigured /\ SmtpConfigured
     /\ last.n.sg.outcome = "return" /\ last.n.sg.value)
        => /\ last.n.smtpCalls = 0
           /\ last.n.smtp.connects = 0
           /\ last.n.outcome = "return"
           /\ last.n.value

C1_Witness ==
    /\ Dispatched
    /\ RestConfigured /\ SmtpConfigured
    /\ last.n.sgCalls = 1 /\ last.n.sg.posts = 1 /\ last.n.sg.value
    /\ last.n.value

\* C2: when both providers are configured and the REST sender returns
\* false, the SMTP sender is called exactly once and the dispatch returns
\* the SMTP sender's boolean result.
C2_RestFailureFallsThrough ==
    (/\ Dispatched
     /\ RestConfigured /\ SmtpConfigured
     /\ last.n.sg.outcome = "return" /\ ~last.n.sg.value)
        => /\ last.n.smtpCalls = 1
           /\ last.n.smtp.outcome = "return"
           /\ last.n.outcome = "return"
           /\ last.n.value = last.n.smtp.value

\* C3: when neither provider is configured, the dispatch returns false
\* and makes no network call: no HTTPS request, no SMTP connection.
C3_NeitherConfiguredNoNetwork ==
    (Dispatched /\ ~RestConfigured /\ ~SmtpConfigured)
        => /\ last.n.outcome = "return"
           /\ ~last.n.value
           /\ NetworkCalls = 0

C3_Witness ==
    /\ Dispatched
    /\ env["SENDGRID_API_KEY"] = Some("")
    /\ ~SmtpConfigured
    /\ ~IsIntLiteral(GetenvDefault("SMTP_PORT", DefaultPort))
    /\ last.n.outcome = "return" /\ ~last.n.value

\* C4: when exactly one provider is configured, the dispatch calls that
\* provider's sender exactly once, never calls the other sender, and
\* returns the boolean that sender returned.
C4_SingleProvider ==
    /\ (Dispatched /\ RestConfigured /\ ~SmtpConfigured)
            => /\ last.n.sgCalls = 1 /\ last.n.smtpCalls = 0
               /\ last.n.sg.outcome = "return"
               /\ last.n.outcome = "return"
               /\ last.n.value = last.n.sg.value
    /\ (Dispatched /\ ~RestConfigured /\ SmtpConfigured)
            => /\ last.n.smtpCalls = 1 /\ last.n.sgCalls = 0
               /\ last.n.smtp.outcome = "return"
               /\ last.n.outcome = "return"
               /\ last.n.value = last.n.smtp.value

\* C5: once create_document has returned an id, the contact request
\* answers status "ok" with that id and the dispatcher's result; nothing
\* on the notification path makes it an HTTP 500.
C5_NotificationIsolated ==
    (last.op = "contact" /\ last.persisted)
        => /\ last.status = "ok"
           /\ last.id = Len(db)
           /\ last.n.outcome = "return"
           /\ last.value = last.n.value

\* C6: when create_document raises, the contact request fails with HTTP
\* 500 and send_notification is not invoked, so no provider is attempted.
C6_NoNotificationWithoutPersistence ==
    (last.op = "contact" /\ ~last.persisted)
        => /\ last.status = "500"
           /\ ~Dispatched
           /\ last.n.sgCalls = 0 /\ last.n.smtpCalls = 0
           /\ NetworkCalls = 0

C6_Witness ==
    /\ last.op = "contact"
    /\ last.handed # <<>>
    /\ ~last.persisted
    /\ RestConfigured /\ SmtpConfigured
    /\ last.status = "500"

\* C7: a lead submitted with source null or absent is handed to
\* create_document with source "website".
C7_PersistedSourceDefault ==
    (/\ last.op = "contact"
     /\ last.handed # <<>>
     /\ (~last.payload.present \/ last.payload.source = None))
        => last.handed[1].source = WebsiteSource

\* C8: neither sender propagates an exception: every call of a sender,
\* direct or from the dispatcher, ends by returning a boolean.
C8_SendersNeverRaise ==
    /\ last.s.outcome # "raise"
    /\ last.n.sg.outcome # "raise"
    /\ last.n.smtp.outcome # "raise"

\* C9: every SMTP session the sender opened has been terminated with
\* quit when the sender returns.
C9_SessionAlwaysTerminated ==
    /\ last.s.opened = last.s.quits
    /\ last.n.smtp.opened = last.n.smtp.quits

\* C10: the dispatcher logs "No email provider configured" if and only
\* if neither provider is configured.
C10_WarningIffNeitherConfigured ==
    Dispatched => (last.n.warned <=> (~RestConfigured /\ ~SmtpConfigured))

(* ---------------------------------------------------------------------- *)
(* Supporting facts                                                        *)
(* ---------------------------------------------------------------------- *)

\* SMTP_PORT, or its default, is text int() accepts.
PortParses == IsIntLiteral(GetenvDefault("SMTP_PORT", DefaultPort))

\* The only way a sender raises is int(SMTP_PORT) in send_email_via_smtp,
\* which is evaluated outside the try block.
RaiseOnlyFromPort ==
    /\ last.n.sg.outcome # "raise"
    /\ last.s.outcome = "raise" => (last.op = "send_email_via_smtp" /\ ~PortParses)
    /\ last.n.smtp.outcome = "raise" => ~PortParses

\* With a port that parses, the fall-through, the single-provider rule
\* and the isolation of the request from notification failures all hold.
FallbackHoldsWhenPortParses ==
    PortParses =>
        /\ C2_RestFailureFallsThrough
        /\ C4_SingleProvider
        /\ C5_NotificationIsolated

\* In every dispatch the SMTP sender is called at most once and only
\* after the REST sender was skipped or returned false.
SmtpOnlyAfterRest ==
    Dispatched =>
        /\ last.n.sgCalls = (IF RestConfigured THEN 1 ELSE 0)
        /\ last.n.smtpCalls = 1 <=> (SmtpConfigured /\ ~last.n.sg.value)

====
